---- MODULE Spec2Model ----
(***************************************************************************)
(* A model of gitgraphed (src/main.go): one run of main, which fetches a   *)
(* user's contribution page, extracts the per-day fragments and the        *)
(* aggregate total from the HTML, and prints the graph as JSON.            *)
(*                                                                         *)
(* Text is a sequence of one-character strings, so that trimming,          *)
(* splitting and number parsing are computed character by character.       *)
(***************************************************************************)
EXTENDS Integers, Sequences, FiniteSets, TLC

----------------------------------------------------------------------------
(* Characters and integers *)

DigitChars == <<"0", "1", "2", "3", "4", "5", "6", "7", "8", "9">>

IsDigit(c) == \E i \in 1..10 : DigitChars[i] = c

DigitVal(c) == (CHOOSE i \in 1..10 : DigitChars[i] = c) - 1

\* unicode.IsSpace restricted to the characters a TLA+ string can hold.
IsSpace(c) == c \in {" ", "\t", "\n", "\r", "\f"}

\* Go's int is 32 or 64 bits wide depending on the target (strconv.IntSize);
\* the model takes the 32-bit target, whose largest int is MaxInt.  On a
\* 64-bit target the same clamping happens at 2^63 - 1.
MaxInt == 2147483647

MinInt == -MaxInt - 1

\* ParseUint's cutoff, maxUint32 \div 10 + 1: the smallest n for which 10 * n
\* leaves uint32.  The accumulator n is kept as the pair (hi, lo) with
\* n = 10 * hi + lo, so that no intermediate value exceeds MaxInt.
UintCutoff == 429496730

\* strconv.ParseUint(s, 10, IntSize) from position i with accumulator
\* n = 10 * hi + lo.  "syntax": a character that is no digit; "range": the
\* value left uint32 before any bad character was met.
RECURSIVE ParseUintFrom(_, _, _, _)
ParseUintFrom(s, i, hi, lo) ==
    IF i > Len(s) THEN [st |-> "ok", hi |-> hi, lo |-> lo]
    ELSE IF ~IsDigit(s[i]) THEN [st |-> "syntax", hi |-> 0, lo |-> 0]
    ELSE IF hi >= UintCutoff \div 10 THEN [st |-> "range", hi |-> 0, lo |-> 0]
    ELSE LET n == 10 * hi + lo
             d == DigitVal(s[i])
         IN  IF n = UintCutoff - 1 /\ d > 5
             THEN [st |-> "range", hi |-> 0, lo |-> 0]
             ELSE ParseUintFrom(s, i + 1, n, d)

ParseUint(s) ==
    IF s = <<>> THEN [st |-> "syntax", hi |-> 0, lo |-> 0]
    ELSE ParseUintFrom(s, 1, 0, 0)

\* strconv.Atoi(s): [val, ok].  A syntax error gives 0; a value out of range
\* gives the nearest int (ParseInt's clamping) together with the error.
Atoi(s) ==
    LET neg  == s # <<>> /\ s[1] = "-"
        sign == s # <<>> /\ s[1] \in {"+", "-"}
        u    == ParseUint(IF sign THEN Tail(s) ELSE s)
        big  == u.hi > MaxInt \div 10
                  \/ (u.hi = MaxInt \div 10 /\ u.lo >= (MaxInt % 10) + 1)
        bigN == u.hi > MaxInt \div 10
                  \/ (u.hi = MaxInt \div 10 /\ u.lo >= (MaxInt % 10) + 2)
        minN == u.hi = MaxInt \div 10 /\ u.lo = (MaxInt % 10) + 1
    IN  IF s = <<>> \/ u.st = "syntax" THEN [val |-> 0, ok |-> FALSE]
        ELSE IF u.st = "range"
             THEN [val |-> IF neg THEN MinInt ELSE MaxInt, ok |-> FALSE]
        ELSE IF ~neg /\ big THEN [val |-> MaxInt, ok |-> FALSE]
        ELSE IF neg /\ bigN THEN [val |-> MinInt, ok |-> FALSE]
        ELSE IF neg /\ minN THEN [val |-> MinInt, ok |-> TRUE]
        ELSE [val |-> (IF neg THEN -1 ELSE 1) * (10 * u.hi + u.lo), ok |-> TRUE]

\* fmt's %d verb (strconv.Itoa), for n > MinInt.
RECURSIVE Itoa(_)
Itoa(n) ==
    IF n < 0 THEN <<"-">> \o Itoa(-n)
    ELSE IF n < 10 THEN <<DigitChars[n + 1]>>
    ELSE Append(Itoa(n \div 10), DigitChars[(n % 10) + 1])

----------------------------------------------------------------------------
(* strings.TrimSpace, strings.Fields *)

RECURSIVE TrimLeft(_)
TrimLeft(s) ==
    IF s # <<>> /\ IsSpace(s[1]) THEN TrimLeft(Tail(s)) ELSE s

RECURSIVE TrimRight(_)
TrimRight(s) ==
    IF s # <<>> /\ IsSpace(s[Len(s)])
    THEN TrimRight(SubSeq(s, 1, Len(s) - 1))
    ELSE s

TrimSpace(s) == TrimRight(TrimLeft(s))

\* The longest prefix of s without white space.
RECURSIVE FirstWord(_)
FirstWord(s) ==
    IF s = <<>> \/ IsSpace(s[1]) THEN <<>>
    ELSE <<s[1]>> \o FirstWord(Tail(s))

\* strings.Fields(s): the maximal runs of non-space characters, in order.
RECURSIVE Fields(_)
Fields(s) ==
    LET t == TrimLeft(s)
        w == FirstWord(t)
    IN  IF t = <<>> THEN <<>>
        ELSE <<w>> \o Fields(SubSeq(t, Len(w) + 1, Len(t)))

----------------------------------------------------------------------------
(* time.Parse("2006-01-02", s), Time.Weekday, Time.ISOWeek *)

IsLeap(y) == y % 4 = 0 /\ (y % 100 # 0 \/ y % 400 = 0)

daysIn(m, y) ==
    IF m = 2 THEN (IF IsLeap(y) THEN 29 ELSE 28)
    ELSE IF m \in {4, 6, 9, 11} THEN 30
    ELSE 31

DaysInYear(y) == IF IsLeap(y) THEN 366 ELSE 365

\* The layout's fixed-width numeric fields: every character must be a digit.
AllDigits(s) == \A i \in 1..Len(s) : IsDigit(s[i])

RECURSIVE DecimalOf(_)
DecimalOf(s) ==
    IF s = <<>> THEN 0
    ELSE 10 * DecimalOf(SubSeq(s, 1, Len(s) - 1)) + DigitVal(s[Len(s)])

\* time.Parse with layout "2006-01-02": four digits, "-", two digits, "-",
\* two digits and nothing after them; month in 1..12 and day within the month.
ParseDate(s) ==
    LET shape == /\ Len(s) = 10
                 /\ AllDigits(SubSeq(s, 1, 4))
                 /\ s[5] = "-"
                 /\ AllDigits(SubSeq(s, 6, 7))
                 /\ s[8] = "-"
                 /\ AllDigits(SubSeq(s, 9, 10))
        y == DecimalOf(SubSeq(s, 1, 4))
        m == DecimalOf(SubSeq(s, 6, 7))
        d == DecimalOf(SubSeq(s, 9, 10))
    IN  IF shape /\ m \in 1..12 /\ d >= 1 /\ d <= daysIn(m, y)
        THEN [ok |-> TRUE, year |-> y, month |-> m, day |-> d]
        ELSE [ok |-> FALSE, year |-> 0, month |-> 0, day |-> 0]

\* Day of the year, 0 for January 1.
RECURSIVE DaysBeforeMonth(_, _)
DaysBeforeMonth(m, y) ==
    IF m = 1 THEN 0 ELSE DaysBeforeMonth(m - 1, y) + daysIn(m - 1, y)

YearDay(date) == DaysBeforeMonth(date.month, date.year) + date.day - 1

\* Days from 0001-01-01 (a Monday in the proleptic Gregorian calendar) to
\* January 1 of year y, y >= 0.
DaysBeforeYear(y) ==
    LET p == y - 1
    IN  IF y = 0 THEN -366
        ELSE 365 * p + p \div 4 - p \div 100 + p \div 400

\* Time.Weekday: 0 = Sunday .. 6 = Saturday.
Weekday(date) == (DaysBeforeYear(date.year) + YearDay(date) + 1) % 7

\* getWeekOfYear: the week of Time.ISOWeek, the week of the year that holds
\* the Thursday of the date's Monday-to-Sunday week.
getWeekOfYear(date) ==
    LET wd   == Weekday(date)
        d    == IF wd = 0 THEN -3 ELSE 4 - wd
        yd   == YearDay(date) + d
        ydT  == IF yd < 0 THEN yd + DaysInYear(date.year - 1)
                ELSE IF yd >= DaysInYear(date.year) THEN yd - DaysInYear(date.year)
                ELSE yd
    IN  ydT \div 7 + 1

----------------------------------------------------------------------------
(* The texts the runs are checked on *)

sNoContributions ==
    <<"N", "o", " ", "c", "o", "n", "t", "r", "i", "b", "u", "t", "i", "o",
      "n", "s">>

sFive ==
    <<"5", " ", "c", "o", "n", "t", "r", "i", "b", "u", "t", "i", "o", "n",
      "s">>

sSeven ==
    <<"7", " ", "c", "o", "n", "t", "r", "i", "b", "u", "t", "i", "o", "n",
      "s">>

sPadded ==
    <<"\n", " ", " ", "5", " ", "c", "o", "n", "t", "r", "i", "b", "u",
      "t", "i", "o", "n", "s", " ", "\t">>

sAbc == <<"a", "b", "c">>

sMinusFive ==
    <<"-", "5", " ", "c", "o", "n", "t", "r", "i", "b", "u", "t", "i", "o",
      "n", "s">>

sHuge ==
    <<"9", "9", "9", "9", "9", "9", "9", "9", "9", "9", " ", "c", "o", "n",
      "t", "r", "i", "b", "u", "t", "i", "o", "n", "s">>

sTenNines == <<"9", "9", "9", "9", "9", "9", "9", "9", "9", "9">>

d20240301 == <<"2", "0", "2", "4", "-", "0", "3", "-", "0", "1">>

d20240302 == <<"2", "0", "2", "4", "-", "0", "3", "-", "0", "2">>

d20230101 == <<"2", "0", "2", "3", "-", "0", "1", "-", "0", "1">>

d20240229 == <<"2", "0", "2", "4", "-", "0", "2", "-", "2", "9">>

d20241231 == <<"2", "0", "2", "4", "-", "1", "2", "-", "3", "1">>

d20240303 == <<"2", "0", "2", "4", "-", "0", "3", "-", "0", "3">>

d20240304 == <<"2", "0", "2", "4", "-", "0", "3", "-", "0", "4">>

d20240305 == <<"2", "0", "2", "4", "-", "0", "3", "-", "0", "5">>

d20240230 == <<"2", "0", "2", "4", "-", "0", "2", "-", "3", "0">>

dGarbage == <<"g", "a", "r", "b", "a", "g", "e">>

sOcto == <<"o", "c", "t", "o">>

sCtlUser == <<"o", "c", "\n", "t", "o">>

s2023 == <<"2", "0", "2", "3">>

sThisYear == <<"t", "h", "i", "s">>

s42 == <<"4", "2">>

s1comma234 == <<"1", ",", "2", "3", "4">>

sNone == <<"n", "o">>

\* A response body is a sequence of segments.  A "phrase" segment is the text
\*   <pre> contributions in the last year
\* a "td" segment is the text
\*   <td data-date="<date>" ... data-level="<level>" ...><text></td>
\* and an "other" segment is text that holds neither.
Phrase(pre) ==
    [kind |-> "phrase", pre |-> pre, date |-> <<>>, level |-> <<>>, text |-> <<>>]

Td(date, level, text) ==
    [kind |-> "td", pre |-> <<>>, date |-> date, level |-> level, text |-> text]

Other ==
    [kind |-> "other", pre |-> <<>>, date |-> <<>>, level |-> <<>>, text |-> <<>>]

Segments ==
    { Phrase(s42), Phrase(<<"7">>), Phrase(s1comma234), Phrase(sTenNines),
      Phrase(sNone), Other,
      Td(d20240301, <<"0">>, sNoContributions),
      Td(d20240302, <<"3">>, sSeven),
      Td(d20230101, <<"1">>, <<>>),
      Td(d20240229, <<"2">>, sFive),
      Td(d20241231, <<"4">>, sPadded),
      Td(d20240303, <<"9">>, sAbc),
      Td(d20240304, <<"x">>, sMinusFive),
      Td(d20240305, sTenNines, sHuge),
      Td(d20240230, <<"1">>, sFive),
      Td(dGarbage, <<"2">>, sSeven),
      Td(d20240301, <<>>, sFive) }

\* The longest number of segments of a body.
MaxFrags == 2

RECURSIVE SeqsUpTo(_, _)
SeqsUpTo(S, n) ==
    IF n = 0 THEN {<<>>}
    ELSE LET shorter == SeqsUpTo(S, n - 1)
         IN  shorter \cup {Append(b, x) : b \in shorter, x \in S}

Bodies == SeqsUpTo(Segments, MaxFrags)

\* os.Args[1:]
ArgLists ==
    {<<>>, <<sOcto>>, <<sOcto, s2023>>, <<sOcto, sThisYear>>, <<sCtlUser>>}

\* time.Now().Year()
NowYears == {2026}

\* The status codes a response is drawn from.
Statuses == {200, 201, 204, 299, 301, 404, 500}

----------------------------------------------------------------------------
(* fetchContributionGraph: extraction and normalisation *)

\* The digits (\d+) captures in front of " contributions in the last year":
\* the longest run of digits that ends pre.
RECURSIVE TrailingDigits(_)
TrailingDigits(pre) ==
    IF pre = <<>> \/ ~IsDigit(pre[Len(pre)]) THEN <<>>
    ELSE Append(TrailingDigits(SubSeq(pre, 1, Len(pre) - 1)), pre[Len(pre)])

TotalRegexMatches(seg) == seg.kind = "phrase" /\ TrailingDigits(seg.pre) # <<>>

\* totalRegex.FindStringSubmatch: the leftmost match, <<>> when there is none;
\* otherwise <<whole match, group 1>> (the whole match is not modelled).
TotalMatches(body) ==
    LET hits == SelectSeq(body, TotalRegexMatches)
    IN  IF hits = <<>> THEN <<>>
        ELSE <<hits[1], TrailingDigits(hits[1].pre)>>

totalContribs(body) ==
    LET totalMatches == TotalMatches(body)
    IN  IF Len(totalMatches) > 1 THEN Atoi(totalMatches[2]).val ELSE 0

\* dayRegex: ([^"]+) for the date and the level, ([^<]*) for the inner text.
DayRegexMatches(seg) ==
    /\ seg.kind = "td"
    /\ seg.date # <<>> /\ \A i \in 1..Len(seg.date) : seg.date[i] # "\""
    /\ seg.level # <<>> /\ \A i \in 1..Len(seg.level) : seg.level[i] # "\""
    /\ \A i \in 1..Len(seg.text) : seg.text[i] # "<"

\* dayRegex.FindAllStringSubmatch(htmlContent, -1): every match, in order.
DayMatches(body) == SelectSeq(body, DayRegexMatches)

\* Lines 123-130: the count of a fragment's inner text.
ParseCount(text) ==
    LET countStr == TrimSpace(text)
        countParts == Fields(countStr)
    IN  IF countStr # sNoContributions /\ countStr # <<>>
        THEN IF Len(countParts) > 0 THEN Atoi(countParts[1]).val ELSE 0
        ELSE 0

\* Lines 136-148: the switch on level; the zero value "" when no case applies.
ContribLevelName(level) ==
    CASE level = 0 -> "none"
      [] level = 1 -> "first_quartile"
      [] level = 2 -> "second_quartile"
      [] level = 3 -> "third_quartile"
      [] level = 4 -> "fourth_quartile"
      [] OTHER -> ""

\* Lines 132-157: the record of a match whose date parsed.
DayRecord(match, date) ==
    LET level == Atoi(match.level).val
    IN  [ Date         |-> match.date,
          Count        |-> ParseCount(match.text),
          Level        |-> level,
          DayOfWeek    |-> Weekday(date),
          WeekOfYear   |-> getWeekOfYear(date),
          ContribLevel |-> ContribLevelName(level) ]

LoopBodyPrepend(days, match) ==
    LET date == ParseDate(match.date)
    IN  IF ~date.ok THEN days ELSE <<DayRecord(match, date)>> \o days

\* One iteration of the loop of lines 112-160: continue on a date that does
\* not parse, append the record otherwise.
LoopBody(days, match) ==
    LET date == ParseDate(match.date)
    IN  IF ~date.ok THEN days ELSE Append(days, DayRecord(match, date))

RECURSIVE LoopFrom(_, _, _)
LoopFrom(days, dayMatches, i) ==
    IF i > Len(dayMatches) THEN days
    ELSE LoopFrom(LoopBody(days, dayMatches[i]), dayMatches, i + 1)

Days(body) == LoopFrom(<<>>, DayMatches(body), 1)

NilGraph ==
    [nil |-> TRUE, Username |-> <<>>, TotalContribs |-> 0, Years |-> <<>>,
     Days |-> <<>>]

\* Lines 162-167.
ContributionGraph(user, yr, body) ==
    [nil |-> FALSE, Username |-> user, TotalContribs |-> totalContribs(body),
     Years |-> <<yr>>, Days |-> Days(body)]

\* Lines 65-66.
Url(user, yr) ==
    <<"https://github.com/users/">> \o user \o <<"/contributions?from=">>
        \o Itoa(yr) \o <<"-01-01&to=">> \o Itoa(yr) \o <<"-12-31">>

\* http.NewRequest rejects a URL that holds an ASCII control character.
UrlValid(url) == \A i \in 1..Len(url) : url[i] \notin {"\n", "\t", "\r", "\f"}

NilErr == [kind |-> "nil", msg |-> <<>>]

Err(kind, msg) == [kind |-> kind, msg |-> msg]

StatusErrNoCode(status) == Err("status", <<"HTTP request failed">>)

\* Line 88.
StatusErr(status) ==
    Err("status", <<"HTTP request failed with status code: ">> \o Itoa(status))

StatusAccepted2xx(status) == status \in 200..299

\* Line 87: http.StatusOK is 200.
StatusAccepted(status) == status = 200

NoResp == [got |-> FALSE, StatusCode |-> 0, open |-> FALSE]

CloseForgotten(r) == r

\* defer resp.Body.Close() (line 85), run when the function returns.
DeferredClose(r) == [r EXCEPT !.open = FALSE]

NoReq == [method |-> "", url |-> <<>>, headers |-> {}]

\* What one write to standard output holds.
Out(kind, text, doc) == [kind |-> kind, text |-> text, doc |-> doc]

----------------------------------------------------------------------------
(* The run of main *)

VARIABLES
    pc,        \* where the run is: "main", "fetch", "do", "status", "read",
               \* "returned" (fetchContributionGraph has returned), "exited"
    args,      \* os.Args[1:]
    now,       \* time.Now().Year()
    username,  \* main's username
    year,      \* main's year
    req,       \* the request built by http.NewRequest
    gets,      \* the number of calls of client.Do
    resp,      \* the response: whether one was obtained, its status, whether
               \* its body is still open
    body,      \* the segments io.ReadAll returned
    graph,     \* fetchContributionGraph's first result
    err,       \* fetchContributionGraph's second result
    stdout,    \* the writes to standard output, in order
    exitCode   \* the exit status; -1 while the process runs

vars ==
    <<pc, args, now, username, year, req, gets, resp, body, graph, err, stdout,
      exitCode>>

Init ==
    /\ pc = "main"
    /\ args \in ArgLists
    /\ now \in NowYears
    /\ username = <<>>
    /\ year = 0
    /\ req = NoReq
    /\ gets = 0
    /\ resp = NoResp
    /\ body = <<>>
    /\ graph = NilGraph
    /\ err = NilErr
    /\ stdout = <<>>
    /\ exitCode = -1

\* Lines 34-37: no username.
MainUsage ==
    /\ pc = "main"
    /\ Len(args) < 1
    /\ stdout' = Append(stdout, Out("usage", <<"Usage: gitgraphed <username> [year]">>, NilGraph))
    /\ exitCode' = 1
    /\ pc' = "exited"
    /\ UNCHANGED <<args, now, username, year, req, gets, resp, body, graph, err>>

\* Lines 39-49: the username, the year (the argument when it parses, the
\* current year otherwise) and the call of fetchContributionGraph.
MainArgs ==
    /\ pc = "main"
    /\ Len(args) >= 1
    /\ username' = args[1]
    /\ year' = IF Len(args) >= 2 /\ Atoi(args[2]).ok THEN Atoi(args[2]).val ELSE now
    /\ pc' = "fetch"
    /\ UNCHANGED <<args, now, req, gets, resp, body, graph, err, stdout, exitCode>>

\* Lines 65-79: the URL, the request and its two headers; an invalid URL
\* returns the error.
NewRequest ==
    /\ pc = "fetch"
    /\ LET url == Url(username, year)
       IN  IF UrlValid(url)
           THEN /\ req' = [method |-> "GET", url |-> url,
                            headers |-> {"User-Agent", "Accept"}]
                /\ pc' = "do"
                /\ UNCHANGED err
           ELSE /\ err' = Err("url", <<"invalid control character in URL">>)
                /\ pc' = "returned"
                /\ UNCHANGED req
    /\ UNCHANGED <<args, now, username, year, gets, resp, body, graph, stdout, exitCode>>

\* Lines 81-84: client.Do fails (no connection, the 10 s timeout).
ClientDoError ==
    /\ pc = "do"
    /\ gets' = gets + 1
    /\ err' = Err("transport", <<"Get: transport error">>)
    /\ pc' = "returned"
    /\ UNCHANGED <<args, now, username, year, req, resp, body, graph, stdout, exitCode>>

\* Lines 81-85: client.Do returns a response; its body is open.
ClientDoResponse ==
    /\ pc = "do"
    /\ gets' = gets + 1
    /\ \E status \in Statuses :
          resp' = [got |-> TRUE, StatusCode |-> status, open |-> TRUE]
    /\ pc' = "status"
    /\ UNCHANGED <<args, now, username, year, req, body, graph, err, stdout, exitCode>>

\* Lines 87-89: the status check.
CheckStatus ==
    /\ pc = "status"
    /\ IF StatusAccepted(resp.StatusCode)
       THEN /\ pc' = "read"
            /\ UNCHANGED <<resp, err>>
       ELSE /\ err' = StatusErr(resp.StatusCode)
            /\ resp' = DeferredClose(resp)
            /\ pc' = "returned"
    /\ UNCHANGED <<args, now, username, year, req, gets, body, graph, stdout, exitCode>>

\* Lines 91-94: io.ReadAll fails.
ReadAllError ==
    /\ pc = "read"
    /\ err' = Err("read", <<"unexpected EOF">>)
    /\ resp' = DeferredClose(resp)
    /\ pc' = "returned"
    /\ UNCHANGED <<args, now, username, year, req, gets, body, graph, stdout, exitCode>>

\* Lines 91-167: io.ReadAll returns the body; extraction, the loop over the
\* matches, and the return of the graph.
ReadAllParse ==
    /\ pc = "read"
    /\ \E b \in Bodies :
          /\ body' = b
          /\ graph' = ContributionGraph(username, year, b)
    /\ resp' = DeferredClose(resp)
    /\ pc' = "returned"
    /\ UNCHANGED <<args, now, username, year, req, gets, err, stdout, exitCode>>

MainFetchErrorRetry ==
    /\ pc = "returned"
    /\ err # NilErr
    /\ stdout' = Append(stdout,
                   Out("fetchError", <<"Error fetching contribution data: ">> \o err.msg, NilGraph))
    /\ IF gets < 2 /\ req # NoReq
       THEN /\ pc' = "do"
            /\ exitCode' = exitCode
       ELSE /\ pc' = "exited"
            /\ exitCode' = 1
    /\ UNCHANGED <<args, now, username, year, req, gets, resp, body, graph, err>>

\* Lines 50-53.
MainFetchError ==
    /\ pc = "returned"
    /\ err # NilErr
    /\ stdout' = Append(stdout,
                   Out("fetchError", <<"Error fetching contribution data: ">> \o err.msg, NilGraph))
    /\ exitCode' = 1
    /\ pc' = "exited"
    /\ UNCHANGED <<args, now, username, year, req, gets, resp, body, graph, err>>

\* Lines 56-62: the document is written; main returns.
MainEncode ==
    /\ pc = "returned"
    /\ err = NilErr
    /\ stdout' = Append(stdout, Out("json", <<>>, graph))
    /\ exitCode' = 0
    /\ pc' = "exited"
    /\ UNCHANGED <<args, now, username, year, req, gets, resp, body, graph, err>>

MainEncodeErrorNoExit ==
    /\ pc = "returned"
    /\ err = NilErr
    /\ stdout' = Append(stdout, Out("encodeError", <<"Error encoding JSON: write error">>, NilGraph))
    /\ exitCode' = 0
    /\ pc' = "exited"
    /\ UNCHANGED <<args, now, username, year, req, gets, resp, body, graph, err>>

\* Lines 58-61: encoder.Encode fails (the write to standard output fails).
MainEncodeError ==
    /\ pc = "returned"
    /\ err = NilErr
    /\ stdout' = Append(stdout, Out("encodeError", <<"Error encoding JSON: write error">>, NilGraph))
    /\ exitCode' = 1
    /\ pc' = "exited"
    /\ UNCHANGED <<args, now, username, year, req, gets, resp, body, graph, err>>

Next ==
    \/ MainUsage
    \/ MainArgs
    \/ NewRequest
    \/ ClientDoError
    \/ ClientDoResponse
    \/ CheckStatus
    \/ ReadAllError
    \/ ReadAllParse
    \/ MainFetchError
    \/ MainEncode
    \/ MainEncodeError

Spec == Init /\ [][Next]_vars

\* Every step of the run ends: client.Do and io.ReadAll within the client's
\* 10 s timeout, the rest is straight-line code.
FairSpec == Spec /\ WF_vars(Next)

----------------------------------------------------------------------------
(* Properties *)

Returned == pc \in {"returned", "exited"}

Wrote(kind) == \E i \in 1..Len(stdout) : stdout[i].kind = kind

Non2xx == resp.got /\ resp.StatusCode \notin 200..299

\* The number a message ends with.
CodeOf(msg) == DecimalOf(TrailingDigits(msg))

DateParses(match) == ParseDate(match.date).ok

\* The matches that become records.
Kept == SelectSeq(DayMatches(body), DateParses)

\* C1 as stated: after a non-2xx response the error carries the status code,
\* no graph is returned, and when the process has exited nothing at all was
\* written to standard output and the exit status is 1.
C1_NothingWritten ==
    (Returned /\ Non2xx) =>
        /\ err.kind = "status" /\ CodeOf(err.msg) = resp.StatusCode
        /\ graph.nil
        /\ pc = "exited" => (stdout = <<>> /\ exitCode = 1)

\* C1 amended: after a non-2xx response the error carries the status code, no
\* graph is returned, and the process exits with status 1 having written to
\* standard output only the line "Error fetching contribution data: <error>",
\* and no JSON document.
C1_OnlyErrorLineWritten ==
    (Returned /\ Non2xx) =>
        /\ err.kind = "status" /\ CodeOf(err.msg) = resp.StatusCode
        /\ graph.nil
        /\ pc = "returned" => stdout = <<>>
        /\ pc = "exited" =>
              /\ exitCode = 1
              /\ Len(stdout) = 1
              /\ stdout[1].kind = "fetchError"
              /\ CodeOf(stdout[1].text) = resp.StatusCode
              /\ ~Wrote("json")

C1_Witness ==
    /\ pc = "exited" /\ resp.got /\ resp.StatusCode = 404
    /\ exitCode = 1 /\ Len(stdout) = 1

\* C2 as stated: the status check rejects a response exactly when its status
\* is outside 200..299.
C2_RejectsIffNon2xx ==
    (Returned /\ resp.got) =>
        (err.kind = "status" <=> resp.StatusCode \notin 200..299)

\* C2 amended: the status check rejects a response exactly when its status is
\* not 200; a 200 response whose body is read yields a graph and no error, and
\* every other status yields an error and no graph.
C2_RejectsIffNot200 ==
    (Returned /\ resp.got) =>
        /\ err.kind = "status" <=> resp.StatusCode # 200
        /\ (resp.StatusCode = 200 /\ err.kind # "read") => (err = NilErr /\ ~graph.nil)
        /\ resp.StatusCode # 200 => (err # NilErr /\ graph.nil)

C2_Witness ==
    Returned /\ resp.got /\ resp.StatusCode = 204 /\ err.kind = "status" /\ graph.nil

\* C3: the run ends with exit status 0 or 1; 1 exactly when the username is
\* missing, the fetch returned an error or the encoding failed; without a
\* username the usage message is printed and no request is built or sent.
C3_ExitCode ==
    /\ pc # "exited" <=> exitCode = -1
    /\ pc = "exited" =>
          /\ exitCode \in {0, 1}
          /\ exitCode = 1 <=> (Len(args) < 1 \/ err # NilErr \/ Wrote("encodeError"))
          /\ exitCode = 0 => (Wrote("json") /\ ~graph.nil)
          /\ Len(args) < 1 =>
                (Len(stdout) = 1 /\ stdout[1].kind = "usage" /\ gets = 0 /\ req = NoReq)

C3_Witness ==
    pc = "exited" /\ exitCode = 1 /\ err = NilErr /\ Wrote("encodeError")

\* C4: the dates of the returned days are the dates of the matches, in the
\* order of the body, without the matches whose date does not parse; a body
\* without matches gives no days and no error.
C4_DaysInSourceOrder ==
    (Returned /\ ~graph.nil) =>
        /\ Len(graph.Days) = Len(Kept)
        /\ \A i \in 1..Len(Kept) : graph.Days[i].Date = Kept[i].date
        /\ DayMatches(body) = <<>> => (graph.Days = <<>> /\ err = NilErr)

C4_Witness ==
    /\ Returned /\ ~graph.nil
    /\ Len(DayMatches(body)) = 2 /\ Len(graph.Days) = 1
    /\ ~DateParses(DayMatches(body)[1])
    /\ graph.Days[1].Date = DayMatches(body)[2].date

\* The count C5 states for an inner text.
StatedCount(text) ==
    LET t   == TrimSpace(text)
        tok == FirstWord(t)
    IN  IF t = <<>> \/ t = sNoContributions THEN 0
        ELSE IF Atoi(tok).ok THEN Atoi(tok).val
        ELSE 0

\* C5: the count of every record is 0 for an empty inner text or "No
\* contributions", the value of the first token when that token parses as an
\* integer, and 0 when it does not parse.
C5_CountRule ==
    (Returned /\ ~graph.nil) =>
        /\ Len(graph.Days) = Len(Kept)
        /\ \A i \in 1..Len(Kept) : graph.Days[i].Count = StatedCount(Kept[i].text)

\* C6: the total and every count of a returned graph are non-negative.
C6_NonNegative ==
    (Returned /\ ~graph.nil) =>
        /\ graph.TotalContribs >= 0
        /\ \A i \in 1..Len(graph.Days) : graph.Days[i].Count >= 0

\* The label C7 states for a level.
StatedLabel(level) ==
    IF level = 0 THEN "none"
    ELSE IF level = 1 THEN "first_quartile"
    ELSE IF level = 2 THEN "second_quartile"
    ELSE IF level = 3 THEN "third_quartile"
    ELSE IF level = 4 THEN "fourth_quartile"
    ELSE ""

\* C7: the label of every record is the table's label of its level, and a
\* level string that does not parse as an integer gives level 0 and "none".
C7_LabelRule ==
    (Returned /\ ~graph.nil) =>
        /\ Len(graph.Days) = Len(Kept)
        /\ \A i \in 1..Len(Kept) :
              /\ graph.Days[i].ContribLevel = StatedLabel(graph.Days[i].Level)
              /\ ~Atoi(Kept[i].level).ok =>
                    (graph.Days[i].Level = 0 /\ graph.Days[i].ContribLevel = "none")

\* C8: once fetchContributionGraph has returned, the body of the response it
\* obtained is closed; without a response no body is open.
C8_BodyClosed ==
    /\ Returned => ~resp.open
    /\ ~resp.got => ~resp.open

C8_Witness ==
    pc = "returned" /\ resp.got /\ err.kind = "read" /\ ~resp.open

RECURSIVE StripZeros(_)
StripZeros(digits) ==
    IF Len(digits) > 1 /\ digits[1] = "0" THEN StripZeros(Tail(digits))
    ELSE digits

\* The digits in front of the first aggregate phrase of a body, <<>> when the
\* body holds none.
RECURSIVE FirstCaptured(_)
FirstCaptured(b) ==
    IF b = <<>> THEN <<>>
    ELSE IF b[1].kind = "phrase" /\ TrailingDigits(b[1].pre) # <<>>
         THEN TrailingDigits(b[1].pre)
         ELSE FirstCaptured(Tail(b))

\* C9: the total of a returned graph is the integer written by the digits of
\* the first aggregate phrase, and 0 when the body holds no such phrase,
\* whatever the day fragments are.
C9_TotalIsCaptured ==
    (Returned /\ ~graph.nil) =>
        IF FirstCaptured(body) = <<>> THEN graph.TotalContribs = 0
        ELSE Itoa(graph.TotalContribs) = StripZeros(FirstCaptured(body))

Failed == err # NilErr \/ Wrote("encodeError")

\* C10: client.Do is called at most once; after a failure no request is sent
\* any more, and after a fetch failure no JSON document is written; the
\* process exits.
C10_SingleRequestThenExit ==
    /\ [](gets <= 1)
    /\ [](err # NilErr => ~Wrote("json"))
    /\ [][Failed => (gets' = gets /\ pc' = "exited")]_vars
    /\ <>(pc = "exited")

C10_Witness ==
    pc = "exited" /\ err.kind = "transport" /\ gets = 1 /\ ~Wrote("json")

====
